---- MODULE Spec2Model ----
(***************************************************************************)
(* Model of the natural-language front end of the Notion assistant:        *)
(*   AlfredAssistant (README.md, embedded source), NLPSystem / NLPUtils    *)
(*   (nlp/index.ts), NLPProcessor (nlp/processor.ts) and CommandExecutor   *)
(*   (nlp/commands.ts).                                                    *)
(*                                                                         *)
(* Representation of JavaScript values:                                    *)
(*  - a string is a tuple of tokens.  Text whose characters the code       *)
(*    inspects (inputs, priorities, dates) is written one character per    *)
(*    token, so .length is Len; a fixed literal of the code is one opaque  *)
(*    token.  Accented characters are written as ASCII tokens ("a~" is     *)
(*    a-tilde) and the literals are transliterated to ASCII.               *)
(*  - undefined is the reserved tuple Undef; '' is <<>>.                   *)
(*  - an optional object is a record with a kind/def tag.                  *)
(***************************************************************************)
EXTENDS Integers, Sequences, FiniteSets, TLC

(***************************************************************************)
(* Bounds of the model                                                     *)
(***************************************************************************)
MaxRequests == 1
MaxInits == 1
MaxInFlight == 2
MaxAppends == 12
MaxConcurrentRequests == 3

(***************************************************************************)
(* Program constants                                                       *)
(***************************************************************************)
MAX_INPUT_LENGTH == 1000
MAX_CONTEXT_HISTORY == 10
DEFAULT_LIST_LIMIT == 10
FALLBACK_CONFIDENCE == 50
ERROR_CONFIDENCE == 0

(***************************************************************************)
(* Strings                                                                 *)
(***************************************************************************)
Undef == <<"<undefined>">>
EmptyStr == <<>>

Falsy(s) == s = Undef \/ s = EmptyStr

Or(a, b) == IF Falsy(a) THEN b ELSE a

Interp(s) == IF s = Undef THEN <<"undefined">> ELSE s

Repeat(c, n) == [i \in 1..n |-> c]

UpperChars == <<"A","B","C","D","E","F","G","H","I","J","K","L","M","N","O","P","Q","R","S","T","U","V","W","X","Y","Z","A~">>
LowerChars == <<"a","b","c","d","e","f","g","h","i","j","k","l","m","n","o","p","q","r","s","t","u","v","w","x","y","z","a~">>

ToLowerChar(c) ==
  IF \E i \in 1..Len(UpperChars) : UpperChars[i] = c
  THEN LowerChars[CHOOSE i \in 1..Len(UpperChars) : UpperChars[i] = c]
  ELSE c

ToLowerCase(s) == [i \in 1..Len(s) |-> ToLowerChar(s[i])]

IsSpace(c) == c \in {" ", "\t", "\n", "\r"}

StartsWithAt(s, p, i) ==
  /\ i + Len(p) - 1 <= Len(s)
  /\ \A k \in 1..Len(p) : s[i + k - 1] = p[k]

Includes(s, p) == \E i \in 1..(Len(s) + 1) : StartsWithAt(s, p, i)

DropFirst(s, n) == SubSeq(s, n + 1, Len(s))

\* number of leading / trailing blanks of s
RECURSIVE LeadingBlanks(_, _)
LeadingBlanks(s, n) ==
  IF n < Len(s) /\ IsSpace(s[n + 1]) THEN LeadingBlanks(s, n + 1) ELSE n

RECURSIVE TrailingBlanks(_, _)
TrailingBlanks(s, n) ==
  IF n < Len(s) /\ IsSpace(s[Len(s) - n]) THEN TrailingBlanks(s, n + 1) ELSE n

TrimStart(s) == SubSeq(s, LeadingBlanks(s, 0) + 1, Len(s))

TrimEnd(s) == SubSeq(s, 1, Len(s) - TrailingBlanks(s, 0))

Trim(s) == TrimEnd(TrimStart(s))

(***************************************************************************)
(* Literals of the code                                                    *)
(***************************************************************************)
GuidanceMsg == <<"Por favor, digite algo para eu poder ajudar.">>
TruncationMsg == <<"Sua mensagem e muito longa. Tente ser mais conciso.">>
NLPApology == <<"Desculpe, nao consegui entender sua solicitacao. Pode reformular?">>
ParseFallbackReply == <<"Entendi sua mensagem, mas preciso de mais clareza para ajudar melhor.">>
HowCanIHelp == <<"Como posso ajudar voce?">>
CommandApology == <<"Desculpe, ocorreu um erro ao processar seu comando. Tente novamente.">>
CommandProcessed == <<"Comando processado com sucesso.">>
NotInitializedError == <<"Alfred nao foi inicializado. Chame initialize() primeiro.">>
EmptyCompletionError == <<"Resposta vazia da OpenAI">>
UnknownError == <<"Erro desconhecido">>
DefaultSession == <<"default">>
ProbeInput == <<"t","e","s","t","e"," ","d","e"," ","c","o","n","e","x","a~","o">>

(***************************************************************************)
(* Input validation helper (NLPUtils.validateInputLength)                  *)
(***************************************************************************)
ValidateInputLength(input) ==
  IF Len(input) = 0
  THEN [valid |-> FALSE, message |-> GuidanceMsg]
  ELSE IF Len(input) > MAX_INPUT_LENGTH
       THEN [valid |-> FALSE, message |-> TruncationMsg]
       ELSE [valid |-> TRUE, message |-> Undef]

(***************************************************************************)
(* Conversation context store (NLPProcessor.context)                       *)
(***************************************************************************)
LastN(h, n) == IF Len(h) <= n THEN h ELSE SubSeq(h, Len(h) - n + 1, Len(h))

NewContext(sid) == [sessionId |-> sid, history |-> <<>>]

GetOrCreateContext(ctx, sid) ==
  IF sid \in DOMAIN ctx THEN ctx ELSE ctx @@ (sid :> NewContext(sid))

HistoryEntry(input, output, ts) ==
  [input |-> input, output |-> output, timestamp |-> ts]

TrimHistory_KeepFirst(h) ==
  IF Len(h) > MAX_CONTEXT_HISTORY THEN SubSeq(h, 1, MAX_CONTEXT_HISTORY) ELSE h

TrimHistory(h) ==
  IF Len(h) > MAX_CONTEXT_HISTORY THEN LastN(h, MAX_CONTEXT_HISTORY) ELSE h

UpdateContext_SharedHistory(ctx, sid, input, output, ts) ==
  LET c1 == GetOrCreateContext(ctx, sid)
  IN  [t \in DOMAIN c1 |->
         [c1[t] EXCEPT !.history =
            TrimHistory(Append(@, HistoryEntry(input, output, ts)))]]

UpdateContext_Overwrite(ctx, sid, input, output, ts) ==
  LET c1 == GetOrCreateContext(ctx, sid)
  IN  [c1 EXCEPT ![sid].history = <<HistoryEntry(input, output, ts)>>]

UpdateContext(ctx, sid, input, output, ts) ==
  LET c1 == GetOrCreateContext(ctx, sid)
      pushed == Append(c1[sid].history, HistoryEntry(input, output, ts))
  IN  [c1 EXCEPT ![sid].history = TrimHistory(pushed)]

ClearContext_Noop(ctx, sid) == ctx

ClearContext(ctx, sid) == [t \in (DOMAIN ctx) \ {sid} |-> ctx[t]]

RECURSIVE SumHistory(_, _)
SumHistory(ctx, ss) ==
  IF ss = {} THEN 0
  ELSE LET s == CHOOSE t \in ss : TRUE
       IN  Len(ctx[s].history) + SumHistory(ctx, ss \ {s})

GetStats(ctx) ==
  [activeSessions |-> Cardinality(DOMAIN ctx),
   totalInteractions |-> SumHistory(ctx, DOMAIN ctx)]

(***************************************************************************)
(* Command extractor helpers (NLPProcessor)                                *)
(***************************************************************************)

\* alternatives of /^(criar|adicionar|nova?|novo)\s+/i in the order the
\* regular expression tries them
LeadingVerbs == <<<<"c","r","i","a","r">>, <<"a","d","i","c","i","o","n","a","r">>, <<"n","o","v","a">>, <<"n","o","v">>, <<"n","o","v","o">>>>
TrailingNouns == <<<<"t","a","r","e","f","a">>, <<"n","o","t","a">>, <<"p","r","o","j","e","t","o">>>>

\* case-insensitive match of the literal p in s at position i
MatchesAtI(s, p, i) ==
  /\ i >= 1
  /\ i + Len(p) - 1 <= Len(s)
  /\ \A k \in 1..Len(p) : ToLowerChar(s[i + k - 1]) = p[k]

VerbMatches(s, v) ==
  /\ MatchesAtI(s, v, 1)
  /\ Len(s) > Len(v)
  /\ IsSpace(s[Len(v) + 1])

StripLeadingVerb(s) ==
  IF \E i \in 1..Len(LeadingVerbs) : VerbMatches(s, LeadingVerbs[i])
  THEN LET i == CHOOSE j \in 1..Len(LeadingVerbs) :
                  /\ VerbMatches(s, LeadingVerbs[j])
                  /\ \A k \in 1..(j - 1) : ~VerbMatches(s, LeadingVerbs[k])
       IN  TrimStart(DropFirst(s, Len(LeadingVerbs[i])))
  ELSE s

\* /\s+(tarefa|nota|projeto)\s*$/i : the noun ends the text up to
\* trailing blanks and is preceded by at least one blank
NounMatches(s, n) ==
  LET t == TrimEnd(s)
      start == Len(t) - Len(n) + 1
  IN  /\ start >= 2
      /\ MatchesAtI(t, n, start)
      /\ IsSpace(t[start - 1])

StripTrailingNoun(s) ==
  IF \E i \in 1..Len(TrailingNouns) : NounMatches(s, TrailingNouns[i])
  THEN LET i == CHOOSE j \in 1..Len(TrailingNouns) : NounMatches(s, TrailingNouns[j])
           t == TrimEnd(s)
       IN  TrimEnd(SubSeq(t, 1, Len(t) - Len(TrailingNouns[i])))
  ELSE s

ExtractTitleFromInput_NoDefault(input) ==
  Trim(StripTrailingNoun(StripLeadingVerb(input)))

ExtractTitleFromInput(input) ==
  LET cleanInput == Trim(StripTrailingNoun(StripLeadingVerb(input)))
  IN  Or(cleanInput, <<"Nova tarefa">>)

NormalizePriority_CaseSensitive(priority) ==
  IF Falsy(priority) THEN Undef
  ELSE IF Includes(priority, <<"a","l","t","a">>) \/ Includes(priority, <<"h","i","g","h">>)
            \/ Includes(priority, <<"u","r","g","e","n","t","e">>)
       THEN <<"Alta">>
       ELSE IF Includes(priority, <<"b","a","i","x","a">>) \/ Includes(priority, <<"l","o","w">>)
            THEN <<"Baixa">>
            ELSE <<"Media">>

NormalizePriority(priority) ==
  IF Falsy(priority) THEN Undef
  ELSE LET p == ToLowerCase(priority)
       IN  IF Includes(p, <<"a","l","t","a">>) \/ Includes(p, <<"h","i","g","h">>) \/ Includes(p, <<"u","r","g","e","n","t","e">>)
           THEN <<"Alta">>
           ELSE IF Includes(p, <<"b","a","i","x","a">>) \/ Includes(p, <<"l","o","w">>)
                THEN <<"Baixa">>
                ELSE <<"Media">>

\* A date is a number of days counted from the day of the call (today = 0)
DateUndef == [def |-> FALSE, day |-> 0]
DateOf(d) == [def |-> TRUE, day |-> d]

IsoDateText == <<"2","0","2","6","-","1","2","-","2","5">>

\* new Date(dateText): the texts the Date constructor can parse and the
\* day each one denotes; every other text gives an invalid date (NaN)
DirectParse(dateText) ==
  IF dateText = IsoDateText THEN DateOf(49) ELSE DateUndef

ParseDate_WeekIsOneDay(dateText) ==
  IF Falsy(dateText) THEN DateUndef
  ELSE LET text == ToLowerCase(dateText)
       IN  IF Includes(text, <<"h","o","j","e">>) THEN DateOf(0)
           ELSE IF Includes(text, <<"a","m","a","n","h","a~">>) THEN DateOf(1)
           ELSE IF Includes(text, <<"s","e","m","a","n","a">>) THEN DateOf(0 + 1)
           ELSE DirectParse(dateText)

ParseDate(dateText) ==
  IF Falsy(dateText) THEN DateUndef
  ELSE LET text == ToLowerCase(dateText)
       IN  IF Includes(text, <<"h","o","j","e">>) THEN DateOf(0)
           ELSE IF Includes(text, <<"a","m","a","n","h","a~">>) THEN DateOf(1)
           ELSE IF Includes(text, <<"s","e","m","a","n","a">>) THEN DateOf(0 + 7)
           ELSE DirectParse(dateText)

(***************************************************************************)
(* Classifier output (the value JSON.parse gives) and the NLP result       *)
(***************************************************************************)
TagsUndef == [def |-> FALSE, items |-> <<>>]
TagsOf(items) == [def |-> TRUE, items |-> items]
OrTags(t) == IF t.def THEN t ELSE TagsOf(<<>>)

ConfidenceUndef == [def |-> FALSE, pct |-> 0]
ConfidenceOf(p) == [def |-> TRUE, pct |-> p]

\* the entity keys the extractor reads; limit 0 stands for an absent (or
\* zero) limit, which the code cannot tell apart (entities.limit || 10)
NoEntities ==
  [title |-> Undef, description |-> Undef, priority |-> Undef,
   due_date |-> Undef, tags |-> TagsUndef, task_id |-> Undef,
   status |-> Undef, project_name |-> Undef, search_query |-> Undef,
   limit |-> 0, period |-> Undef]

\* kind: "object" (a JSON object), "null" (JSON null), "scalar" (a JSON
\* number, string, boolean or array: every property read is undefined)
AnalysisObject(intent, hasEntities, entities, confidence, response) ==
  [kind |-> "object", intent |-> intent, hasEntities |-> hasEntities,
   entities |-> entities, confidence |-> confidence, response |-> response]

AnalysisNull ==
  [kind |-> "null", intent |-> Undef, hasEntities |-> FALSE,
   entities |-> NoEntities, confidence |-> ConfidenceUndef, response |-> Undef]

AnalysisScalar ==
  [kind |-> "scalar", intent |-> Undef, hasEntities |-> FALSE,
   entities |-> NoEntities, confidence |-> ConfidenceUndef, response |-> Undef]

ParseFallback ==
  AnalysisObject(<<"conversation">>, TRUE, NoEntities,
                 ConfidenceOf(FALLBACK_CONFIDENCE), ParseFallbackReply)

NoCommand == [type |-> Undef, target |-> Undef, action |-> Undef]
CommandOf_Swapped(type, target, action) ==
  [type |-> target, target |-> type, action |-> action]

CommandOf(type, target, action) == [type |-> type, target |-> target, action |-> action]
NoParams == [absent |-> TRUE]
EmptyParams == [empty |-> TRUE]

Get(params, field) == IF field \in DOMAIN params THEN params[field] ELSE Undef

ErrorOf(message) == [isError |-> TRUE, message |-> message]
TypeErrorThrown == ErrorOf(<<"TypeError: Cannot read properties of undefined">>)
ErrorText(err) == IF err.isError THEN err.message ELSE UnknownError

CommandIntents ==
  {<<"create_task">>, <<"update_task">>, <<"complete_task">>, <<"list_tasks">>,
   <<"create_note">>, <<"search_notes">>, <<"create_project">>,
   <<"dashboard">>, <<"analytics">>}

\* the cases of the switch that read a property of entities
ReadsEntities(intent) == intent \in CommandIntents \ {<<"dashboard">>}

ExtractParameters(input, intent, e) ==
  CASE intent = <<"create_task">> ->
         [title |-> Or(e.title, ExtractTitleFromInput(input)),
          description |-> e.description,
          priority |-> NormalizePriority(e.priority),
          dueDate |-> ParseDate(e.due_date),
          tags |-> OrTags(e.tags)]
    [] intent = <<"update_task">> ->
         [taskId |-> e.task_id,
          updates |-> [title |-> e.title,
                       description |-> e.description,
                       priority |-> NormalizePriority(e.priority),
                       status |-> e.status,
                       dueDate |-> ParseDate(e.due_date)]]
    [] intent = <<"complete_task">> ->
         [taskId |-> e.task_id, title |-> e.title]
    [] intent = <<"list_tasks">> ->
         [status |-> e.status,
          priority |-> NormalizePriority(e.priority),
          project |-> e.project_name,
          limit |-> IF e.limit = 0 THEN DEFAULT_LIST_LIMIT ELSE e.limit]
    [] intent = <<"create_note">> ->
         [title |-> Or(e.title, ExtractTitleFromInput(input)),
          content |-> Or(e.description, input),
          tags |-> OrTags(e.tags)]
    [] intent = <<"search_notes">> ->
         [query |-> Or(e.search_query, input), tags |-> e.tags]
    [] intent = <<"create_project">> ->
         [name |-> Or(e.title, e.project_name),
          description |-> e.description,
          status |-> <<"Ativo">>]
    [] intent = <<"dashboard">> -> EmptyParams
    [] intent = <<"analytics">> ->
         [period |-> Or(e.period, <<"week">>)]
    [] OTHER -> NoParams

ExtractedCommand_ChatListsTasks(intent) ==
  IF intent \in {<<"help">>, <<"conversation">>, <<"weather">>}
  THEN CommandOf(<<"read">>, <<"task">>, <<"list_tasks">>)
  ELSE NoCommand

ExtractedCommand(intent) ==
  CASE intent = <<"create_task">> -> CommandOf(<<"create">>, <<"task">>, <<"create_task">>)
    [] intent = <<"update_task">> -> CommandOf(<<"update">>, <<"task">>, <<"update_task">>)
    [] intent = <<"complete_task">> -> CommandOf(<<"update">>, <<"task">>, <<"complete_task">>)
    [] intent = <<"list_tasks">> -> CommandOf(<<"read">>, <<"task">>, <<"list_tasks">>)
    [] intent = <<"create_note">> -> CommandOf(<<"create">>, <<"note">>, <<"create_note">>)
    [] intent = <<"search_notes">> -> CommandOf(<<"read">>, <<"note">>, <<"search_notes">>)
    [] intent = <<"create_project">> -> CommandOf(<<"create">>, <<"project">>, <<"create_project">>)
    [] intent = <<"dashboard">> -> CommandOf(<<"read">>, <<"dashboard">>, <<"get_summary">>)
    [] intent = <<"analytics">> -> CommandOf(<<"read">>, <<"analytics">>, <<"get_stats">>)
    [] OTHER -> NoCommand

\* extractCommand: destructuring null throws, and so does reading a
\* property of an undefined entities object
ExtractCommand(input, analysis) ==
  IF analysis.kind = "null" \/ (ReadsEntities(analysis.intent) /\ ~analysis.hasEntities)
  THEN [threw |-> TRUE, err |-> TypeErrorThrown,
        command |-> NoCommand, parameters |-> NoParams]
  ELSE [threw |-> FALSE, err |-> TypeErrorThrown,
        command |-> ExtractedCommand(analysis.intent),
        parameters |-> ExtractParameters(input, analysis.intent, analysis.entities)]

NLPErrorResult_NoResponse ==
  [intent |-> <<"error">>, hasEntities |-> TRUE, entities |-> NoEntities,
   confidence |-> ConfidenceOf(ERROR_CONFIDENCE),
   command |-> NoCommand, parameters |-> NoParams, response |-> Undef]

NLPErrorResult ==
  [intent |-> <<"error">>, hasEntities |-> TRUE, entities |-> NoEntities,
   confidence |-> ConfidenceOf(ERROR_CONFIDENCE),
   command |-> NoCommand, parameters |-> NoParams, response |-> NLPApology]

NLPResultOf(analysis, extracted) ==
  [intent |-> analysis.intent, hasEntities |-> analysis.hasEntities,
   entities |-> analysis.entities, confidence |-> analysis.confidence,
   command |-> extracted.command, parameters |-> extracted.parameters,
   response |-> analysis.response]

NoNLPResult ==
  [intent |-> Undef, hasEntities |-> FALSE, entities |-> NoEntities,
   confidence |-> ConfidenceUndef,
   command |-> NoCommand, parameters |-> NoParams, response |-> Undef]

\* what the completion of the OpenAI call can be: the call rejects, the
\* completion carries no content, or it carries a text that JSON.parse
\* rejects or turns into a value
ClassifierThrows(err) == [kind |-> "throw", err |-> err, value |-> AnalysisNull]
ClassifierEmpty == [kind |-> "empty", err |-> ErrorOf(EmptyCompletionError), value |-> AnalysisNull]
ClassifierUnparseable == [kind |-> "unparseable", err |-> ErrorOf(<<"SyntaxError">>), value |-> AnalysisNull]
ClassifierParsed(v) == [kind |-> "parsed", err |-> ErrorOf(<<>>), value |-> v]

\* analyzeIntent after the completion arrived (processor.ts 142-157)
AnalyzeIntent(outcome) ==
  CASE outcome.kind = "throw" -> [threw |-> TRUE, err |-> outcome.err, analysis |-> AnalysisNull]
    [] outcome.kind = "empty" -> [threw |-> TRUE, err |-> ErrorOf(EmptyCompletionError), analysis |-> AnalysisNull]
    [] outcome.kind = "unparseable" -> [threw |-> FALSE, err |-> outcome.err, analysis |-> ParseFallback]
    [] OTHER -> [threw |-> FALSE, err |-> outcome.err, analysis |-> outcome.value]

(***************************************************************************)
(* Command dispatcher (CommandExecutor)                                    *)
(***************************************************************************)
NoData == [kind |-> "none"]
ResultOk(message, data) ==
  [success |-> TRUE, message |-> message, data |-> data, error |-> Undef]
ResultFail(message, error) ==
  [success |-> FALSE, message |-> message, data |-> NoData, error |-> error]
NoResult == [success |-> FALSE, message |-> Undef, data |-> NoData, error |-> Undef]

NumStr(n) == <<ToString(n)>>

StoreCall(op, key) == [op |-> op, key |-> key]
NoCall == StoreCall("none", Undef)

Finished(result) == [done |-> TRUE, result |-> result, call |-> NoCall]
Awaiting(call) == [done |-> FALSE, result |-> NoResult, call |-> call]

\* the generic message of the catch block of each route
RouteFailMessage(action) ==
  CASE action = <<"create_task">> -> <<"Nao foi possivel criar a tarefa.">>
    [] action = <<"update_task">> -> <<"Nao foi possivel atualizar a tarefa.">>
    [] action = <<"complete_task">> -> <<"Nao foi possivel completar a tarefa.">>
    [] action = <<"list_tasks">> -> <<"Nao foi possivel listar as tarefas.">>
    [] action = <<"create_note">> -> <<"Nao foi possivel criar a nota.">>
    [] action = <<"search_notes">> -> <<"Nao foi possivel buscar as notas.">>
    [] action = <<"create_project">> -> <<"Nao foi possivel criar o projeto.">>
    [] action = <<"get_summary">> -> <<"Nao foi possivel obter o dashboard.">>
    [] action = <<"get_stats">> -> <<"Nao foi possivel obter as estatisticas.">>
    [] OTHER -> <<"Ocorreu um erro ao executar o comando.">>

RouteCatch_NoError(action, err) == ResultFail(RouteFailMessage(action), Undef)

RouteCatch_OuterMessage(action, err) ==
  ResultFail(<<"Ocorreu um erro ao executar o comando.">>, ErrorText(err))

RouteCatch_LeakDiagnostic(action, err) ==
  ResultFail(RouteFailMessage(action) \o <<" ">> \o ErrorText(err), ErrorText(err))

RouteCatch(action, err) == ResultFail(RouteFailMessage(action), ErrorText(err))

MissingTaskMessage(action) ==
  IF action = <<"update_task">>
  THEN <<"E necessario especificar qual tarefa atualizar.">>
  ELSE <<"E necessario especificar qual tarefa completar.">>

MissingTaskResult(action) ==
  ResultFail(MissingTaskMessage(action), <<"ID ou titulo da tarefa nao fornecido">>)

TaskNotFoundResult_Ok(title) ==
  ResultOk(<<"Tarefa '">> \o Interp(title) \o <<"' nao encontrada.">>, NoData)

TaskNotFoundResult(title) ==
  ResultFail(<<"Tarefa '">> \o Interp(title) \o <<"' nao encontrada.">>,
             <<"Tarefa nao encontrada">>)

ResolveTaskBegin_SearchFirst(action, params) ==
  IF Falsy(Get(params, "taskId"))
  THEN Awaiting(StoreCall("searchTasks", Get(params, "title")))
  ELSE Awaiting(StoreCall(IF action = <<"update_task">> THEN "updateTask" ELSE "completeTask",
                          Get(params, "taskId")))

\* updateTask / completeTask up to their first await (commands.ts 117-141,
\* 160-184)
ResolveTaskBegin(action, params) ==
  LET taskId == Get(params, "taskId")
      title == Get(params, "title")
      mutate == IF action = <<"update_task">> THEN "updateTask" ELSE "completeTask"
  IN  IF Falsy(taskId) /\ Falsy(title)
      THEN Finished(MissingTaskResult(action))
      ELSE IF Falsy(taskId)
           THEN Awaiting(StoreCall("searchTasks", title))
           ELSE Awaiting(StoreCall(mutate, taskId))

\* executeCommand up to the first await on the backing store
ExecuteCommandBegin(nlp) ==
  LET action == nlp.command.action
      params == nlp.parameters
  IN  IF nlp.command = NoCommand
      THEN Finished(ResultOk(Or(nlp.response, HowCanIHelp), NoData))
      ELSE CASE action = <<"create_task">> ->
                  Awaiting(StoreCall("createTask", Or(Get(params, "title"), <<"Nova tarefa">>)))
             [] action \in {<<"update_task">>, <<"complete_task">>} ->
                  ResolveTaskBegin(action, params)
             [] action = <<"list_tasks">> ->
                  Awaiting(StoreCall("searchTasks", Undef))
             [] action = <<"create_note">> ->
                  Awaiting(StoreCall("createNote", Or(Get(params, "title"), <<"Nova nota">>)))
             [] action = <<"search_notes">> ->
                  Awaiting(StoreCall("searchNotes", Get(params, "query")))
             [] action = <<"create_project">> ->
                  Awaiting(StoreCall("createProject", Or(Get(params, "name"), <<"Novo projeto">>)))
             [] action = <<"get_summary">> ->
                  Awaiting(StoreCall("getDashboardSummary", Undef))
             [] action = <<"get_stats">> ->
                  Awaiting(StoreCall("getProductivityStats", Or(Get(params, "period"), <<"week">>)))
             [] OTHER ->
                  Finished(ResultFail(<<"Comando nao reconhecido.">>,
                                      <<"Acao '">> \o Interp(action) \o <<"' nao implementada">>))

\* Array.prototype.slice(0, n)
Slice0(items, n) ==
  IF n >= 0
  THEN SubSeq(items, 1, IF n < Len(items) THEN n ELSE Len(items))
  ELSE SubSeq(items, 1, IF Len(items) + n > 0 THEN Len(items) + n ELSE 0)

RECURSIVE JoinLines(_, _)
JoinLines(lines, i) ==
  IF i > Len(lines) THEN <<>>
  ELSE (IF i > 1 THEN <<"\n">> ELSE <<>>) \o lines[i] \o JoinLines(lines, i + 1)

TaskLine(task, index) ==
  NumStr(index) \o <<". ">> \o Interp(task.title) \o <<" (">> \o Interp(task.status)
    \o <<") - ">> \o Interp(task.priority)

RECURSIVE JoinTags(_, _)
JoinTags(tags, i) ==
  IF i > Len(tags) THEN <<>>
  ELSE (IF i > 1 THEN <<", ">> ELSE <<>>) \o tags[i] \o JoinTags(tags, i + 1)

NoteLine(note, index) ==
  NumStr(index) \o <<". ">> \o Interp(note.title)
    \o (IF Len(note.tags) > 0 THEN <<" [">> \o JoinTags(note.tags, 1) \o <<"]">> ELSE <<>>)

ListTasksResult(params, tasks) ==
  IF Len(tasks) = 0
  THEN ResultOk(<<"Nenhuma tarefa encontrada com os filtros especificados.">>,
                [kind |-> "list", items |-> <<>>])
  ELSE LET limit == IF params.limit = 0 THEN DEFAULT_LIST_LIMIT ELSE params.limit
           limitedTasks == Slice0(tasks, limit)
           lines == [i \in 1..Len(limitedTasks) |-> TaskLine(limitedTasks[i], i)]
       IN  ResultOk(<<"Encontrei ">> \o NumStr(Len(tasks)) \o <<" tarefa(s):\n\n">>
                      \o JoinLines(lines, 1),
                    [kind |-> "list", items |-> limitedTasks])

SearchNotesResult(notes) ==
  IF Len(notes) = 0
  THEN ResultOk(<<"Nenhuma nota encontrada com os criterios especificados.">>,
                [kind |-> "list", items |-> <<>>])
  ELSE LET shown == Slice0(notes, DEFAULT_LIST_LIMIT)
           lines == [i \in 1..Len(shown) |-> NoteLine(shown[i], i)]
       IN  ResultOk(<<"Encontrei ">> \o NumStr(Len(notes)) \o <<" nota(s):\n\n">>
                      \o JoinLines(lines, 1),
                    [kind |-> "list", items |-> notes])

DashboardResult(summary) ==
  ResultOk(<<"Dashboard - Resumo\n\nTarefas:\n- A fazer: ">> \o NumStr(summary.todo)
             \o <<"\n- Em progresso: ">> \o NumStr(summary.inProgress)
             \o <<"\n- Concluidas: ">> \o NumStr(summary.completed)
             \o <<"\n\nNotas: ">> \o NumStr(summary.notesTotal)
             \o <<"\nProjetos ativos: ">> \o NumStr(summary.projectsActive)
             \o <<"\n\nProdutividade hoje: ">> \o NumStr(summary.tasksCompletedToday)
             \o <<" tarefas concluidas">>,
           [kind |-> "summary", summary |-> summary])

AnalyticsResult(period, stats) ==
  ResultOk(<<"Estatisticas (">> \o Interp(period) \o <<")\n\nTarefas concluidas: ">>
             \o Interp(stats.tasksCompleted)
             \o <<"\nNotas criadas: ">> \o Interp(stats.notesCreated)
             \o <<"\nTempo medio por tarefa: ">> \o Interp(stats.averageCompletionTime)
             \o <<"\nTaxa de conclusao: ">> \o Interp(stats.completionRate)
             \o <<"%\nSequencia atual: ">> \o Interp(stats.currentStreak) \o <<" dias">>,
           [kind |-> "stats", stats |-> stats])

\* the continuation of a route when the awaited store call returned value v
RouteContinue(action, params, call, v) ==
  CASE v.shape = "undefined" -> Finished(RouteCatch(action, TypeErrorThrown))
    [] call.op = "createTask" ->
         Finished(ResultOk(<<"Tarefa '">> \o Interp(v.task.title) \o <<"' criada com sucesso!">>,
                           [kind |-> "task", task |-> v.task]))
    [] call.op = "searchTasks" /\ action = <<"list_tasks">> ->
         Finished(ListTasksResult(params, v.items))
    [] call.op = "searchTasks" /\ action # <<"list_tasks">> ->
         IF Len(v.items) = 0
         THEN Finished(TaskNotFoundResult(Get(params, "title")))
         ELSE Awaiting(StoreCall(IF action = <<"update_task">> THEN "updateTask" ELSE "completeTask",
                                 v.items[1].id))
    [] call.op = "updateTask" ->
         Finished(ResultOk(<<"Tarefa '">> \o Interp(v.task.title) \o <<"' atualizada com sucesso!">>,
                           [kind |-> "task", task |-> v.task]))
    [] call.op = "completeTask" ->
         Finished(ResultOk(<<"Tarefa '">> \o Interp(v.task.title) \o <<"' marcada como concluida!">>,
                           [kind |-> "task", task |-> v.task]))
    [] call.op = "createNote" ->
         Finished(ResultOk(<<"Nota '">> \o Interp(v.note.title) \o <<"' criada com sucesso!">>,
                           [kind |-> "note", note |-> v.note]))
    [] call.op = "searchNotes" -> Finished(SearchNotesResult(v.items))
    [] call.op = "createProject" ->
         Finished(ResultOk(<<"Projeto '">> \o Interp(v.project.name) \o <<"' criado com sucesso!">>,
                           [kind |-> "project", project |-> v.project]))
    [] call.op = "getDashboardSummary" ->
         IF v.summary.nested
         THEN Finished(DashboardResult(v.summary))
         ELSE Finished(RouteCatch(action, TypeErrorThrown))
    [] call.op = "getProductivityStats" ->
         Finished(AnalyticsResult(Or(Get(params, "period"), <<"week">>), v.stats))

ExecuteCommandResume_RetryOnThrow(nlp, call, outcome) ==
  IF outcome.kind = "throw"
  THEN Awaiting(call)
  ELSE RouteContinue(nlp.command.action, nlp.parameters, call, outcome.value)

\* executeCommand resumed by the settlement of the awaited store call
ExecuteCommandResume(nlp, call, outcome) ==
  IF outcome.kind = "throw"
  THEN Finished(RouteCatch(nlp.command.action, outcome.err))
  ELSE RouteContinue(nlp.command.action, nlp.parameters, call, outcome.value)

(***************************************************************************)
(* Environment: callers, the classifier and the backing store              *)
(***************************************************************************)
EmptyInput == <<>>
EdgeInput == Repeat("a", MAX_INPUT_LENGTH)
LongInput == Repeat("a", MAX_INPUT_LENGTH + 1)
CriarTarefaInput == <<"c","r","i","a","r"," ","t","a","r","e","f","a">>

Inputs == {EmptyInput, EdgeInput, LongInput, CriarTarefaInput}

OtherSession == <<"s2">>
Sessions == {DefaultSession, OtherSession}
\* the optional sessionId argument
SessionArgs == {Undef, OtherSession}
SessionOf(arg) == IF arg = Undef THEN DefaultSession ELSE arg

Entries == {"processCommand", "processAndExecute"}

Reply == <<"Claro!">>
TitleX == <<"Revisar relatorio">>
TaskIdX == <<"task-42">>
WithTitle == [NoEntities EXCEPT !.title = TitleX]
WithTaskId == [NoEntities EXCEPT !.task_id = TaskIdX]

TaskRefIntents == {<<"create_task">>, <<"update_task">>, <<"complete_task">>}

WellFormedValues ==
  {AnalysisObject(i, TRUE, NoEntities, ConfidenceOf(95), Reply) : i \in CommandIntents}
    \cup {AnalysisObject(i, TRUE, e, ConfidenceOf(95), Reply) :
            i \in TaskRefIntents, e \in {WithTitle, WithTaskId}}
    \cup {AnalysisObject(<<"list_tasks">>, TRUE, [NoEntities EXCEPT !.limit = 1],
                         ConfidenceOf(95), Reply)}
    \cup {AnalysisObject(i, TRUE, NoEntities, ConfidenceOf(80), r) :
            i \in {<<"help">>, <<"conversation">>}, r \in {Undef, EmptyStr, Reply}}
    \cup {AnalysisObject(i, TRUE, NoEntities, ConfidenceOf(80), Undef) :
            i \in {<<"update_project">>, <<"weather">>}}

\* parseable texts that are not an {intent, entities, confidence, response}
\* object: null, a scalar, {} and objects without entities
MalformedValues ==
  {AnalysisNull, AnalysisScalar,
   AnalysisObject(Undef, FALSE, NoEntities, ConfidenceUndef, Undef),
   AnalysisObject(<<"create_task">>, FALSE, NoEntities, ConfidenceOf(95), Reply),
   AnalysisObject(<<"dashboard">>, FALSE, NoEntities, ConfidenceUndef, Undef)}

ClassifierErrors == {ErrorOf(<<"connect ETIMEDOUT">>), ErrorOf(<<"401 Incorrect API key">>)}

ClassifierOutcomes ==
  {ClassifierThrows(e) : e \in ClassifierErrors}
    \cup {ClassifierEmpty, ClassifierUnparseable}
    \cup {ClassifierParsed(v) : v \in WellFormedValues \cup MalformedValues}

\* the methods of the NotionServices class
NotionServicesOps ==
  {"createTask", "completeTask", "getPendingTasks", "getInProgressTasks",
   "getTasksByPriority", "getOverdueTasks", "getTodayTasks",
   "updateTaskPriority", "startTask", "createNote", "getNotesByTag",
   "getNotesByTags", "getAllNotes", "createQuickNote", "createProject",
   "getActiveProjects", "getCompletedProjects", "getProjectTasks",
   "getDashboardSummary", "getProductivityStats", "searchAll",
   "validateDatabases"}

StoreErrors == {ErrorOf(<<"Falha ao consultar o Notion">>),
                ErrorOf(<<"TypeError: this.notionServices.op is not a function">>)}

StoreThrows(err) == [kind |-> "throw", err |-> err, value |-> [shape |-> "undefined"]]
StoreReturns(v) == [kind |-> "return", err |-> ErrorOf(<<>>), value |-> v]

TaskOf(id, title, status, priority) ==
  [id |-> id, title |-> title, status |-> status, priority |-> priority]
MockTask1 == TaskOf(<<"1">>, <<"Mock Task 1">>, <<"A fazer">>, <<"Alta">>)
MockTask2 == TaskOf(<<"2">>, <<"Mock Task 2">>, <<"Em progresso">>, <<"Media">>)
NoteOf(id, title, tags) == [id |-> id, title |-> title, tags |-> tags]
MockNote1 == NoteOf(<<"1">>, <<"Mock Note 1">>, << <<"test">> >>)
MockNote2 == NoteOf(<<"2">>, <<"Mock Note 2">>, <<>>)

NestedSummary ==
  [nested |-> TRUE, todo |-> 5, inProgress |-> 3, completed |-> 10,
   notesTotal |-> 15, projectsActive |-> 2, tasksCompletedToday |-> 3]
\* the shape NotionServices.getDashboardSummary returns: no tasks / notes /
\* projects / productivity objects
FlatSummary ==
  [nested |-> FALSE, todo |-> 0, inProgress |-> 0, completed |-> 0,
   notesTotal |-> 0, projectsActive |-> 0, tasksCompletedToday |-> 0]

MockStats ==
  [tasksCompleted |-> <<"25">>, notesCreated |-> <<"8">>,
   averageCompletionTime |-> <<"2.5 horas">>, completionRate |-> <<"85">>,
   currentStreak |-> <<"7">>]
ServiceStats ==
  [tasksCompleted |-> <<"25">>, notesCreated |-> <<"8">>,
   averageCompletionTime |-> Undef, completionRate |-> Undef,
   currentStreak |-> Undef]

StoreValues(call) ==
  CASE call.op = "createTask" ->
         {[shape |-> "task", task |-> TaskOf(<<"mock-task-id">>, call.key, <<"A fazer">>, <<"Media">>)]}
    [] call.op = "updateTask" ->
         {[shape |-> "task", task |-> TaskOf(call.key, t, <<"A fazer">>, <<"Media">>)] :
            t \in {Undef, <<"Mock Task">>}}
    [] call.op = "completeTask" ->
         {[shape |-> "task", task |-> TaskOf(call.key, <<"Mock Task">>, <<"Concluida">>, <<"Media">>)]}
    [] call.op = "searchTasks" ->
         {[shape |-> "tasks", items |-> l] :
            l \in {<<>>, <<MockTask1>>, <<MockTask1, MockTask2>>,
                   [i \in 1..(DEFAULT_LIST_LIMIT + 1) |->
                      TaskOf(NumStr(i), <<"Mock Task">>, <<"A fazer">>, <<"Alta">>)]}}
    [] call.op = "createNote" ->
         {[shape |-> "note", note |-> NoteOf(<<"mock-note-id">>, call.key, <<>>)]}
    [] call.op = "searchNotes" ->
         {[shape |-> "notes", items |-> l] :
            l \in {<<>>, <<MockNote1, MockNote2>>,
                   [i \in 1..(DEFAULT_LIST_LIMIT + 1) |->
                      NoteOf(NumStr(i), <<"Mock Note">>, <<>>)]}}
    [] call.op = "createProject" ->
         {[shape |-> "project", project |-> [id |-> <<"mock-project-id">>, name |-> call.key]]}
    [] call.op = "getDashboardSummary" ->
         {[shape |-> "summary", summary |-> m] : m \in {NestedSummary, FlatSummary}}
    [] call.op = "getProductivityStats" ->
         {[shape |-> "stats", stats |-> m] : m \in {MockStats, ServiceStats}}
    [] OTHER -> {}

StoreOutcomes(call) ==
  {StoreThrows(e) : e \in StoreErrors}
    \cup {StoreReturns([shape |-> "undefined"])}
    \cup {StoreReturns(v) : v \in StoreValues(call)}

(***************************************************************************)
(* State                                                                   *)
(***************************************************************************)
VARIABLES
  isInitialized,  \* AlfredAssistant.isInitialized (nlpSystem is set with it)
  context,        \* NLPProcessor.context: sessionId -> ConversationContext
  clock,          \* the time new Date() reads in updateContext
  req,            \* per slot, the request in flight
  started,        \* number of caller requests so far
  inits,          \* number of initialize() calls so far
  lastOp,         \* the last operation on the context store
  appended        \* per live session, every entry appended since its creation

vars == <<isInitialized, context, clock, req, started, inits, lastOp, appended>>

EmptyContext == [t \in {} |-> NewContext(t)]
EmptyLog == [t \in {} |-> <<>>]

IdleRequest ==
  [pc |-> "idle", entry |-> "none", input |-> <<>>, sid |-> DefaultSession,
   nlp |-> NoNLPResult, pending |-> NoCall, result |-> NoResult,
   out |-> Undef, raised |-> FALSE, thrown |-> ErrorOf(<<>>), ready |-> FALSE,
   classifierKind |-> "none", classifierCalls |-> 0, storeCalls |-> <<>>,
   storeReplies |-> <<>>, storeThrew |-> FALSE, storeError |-> ErrorOf(<<>>)]

\* before: the number of history entries the session held before op
\* repeat: op is a clear that directly follows a clear of the same session
\* (before is then the count before the first of them)
StoreOp(op, sid, before) ==
  [op |-> op, sid |-> sid, before |-> before, repeat |-> FALSE]
RepeatedClear(last, sid) == last.op = "clear" /\ last.sid = sid
ClearOp(last, sid, before) ==
  IF RepeatedClear(last, sid)
  THEN [op |-> "clear", sid |-> sid, before |-> last.before, repeat |-> TRUE]
  ELSE StoreOp("clear", sid, before)

Slots == 1..MaxInFlight
AllIdle == \A q \in Slots : req[q].pc = "idle"

Init ==
  /\ isInitialized = FALSE
  /\ context = EmptyContext
  /\ clock = 0
  /\ req = [r \in Slots |-> IdleRequest]
  /\ started = 0
  /\ inits = 0
  /\ lastOp = StoreOp("none", DefaultSession, 0)
  /\ appended = EmptyLog

\* ghost log kept next to the context map
LogCreate(log, sid) == IF sid \in DOMAIN log THEN log ELSE log @@ (sid :> <<>>)
LogAppend(log, sid, entry) ==
  LET l1 == LogCreate(log, sid) IN [l1 EXCEPT ![sid] = Append(l1[sid], entry)]
LogClear(log, sid) == [t \in (DOMAIN log) \ {sid} |-> log[t]]

(***************************************************************************)
(* Operations                                                              *)
(***************************************************************************)
ProcessInputCatch_Rethrow(err) ==
  [threw |-> TRUE, err |-> err, nlp |-> NoNLPResult,
   appends |-> FALSE, output |-> EmptyStr]

ProcessInputCatch_Appends(err) ==
  [threw |-> FALSE, err |-> err, nlp |-> NLPErrorResult,
   appends |-> TRUE, output |-> NLPApology]

\* the catch block of processInput (processor.ts 70-78)
ProcessInputCatch(err) ==
  [threw |-> FALSE, err |-> err, nlp |-> NLPErrorResult,
   appends |-> FALSE, output |-> EmptyStr]

\* processInput after the OpenAI call settled (processor.ts 54-78)
ProcessInputSettle(input, outcome) ==
  LET a == AnalyzeIntent(outcome)
      x == ExtractCommand(input, a.analysis)
  IN  IF a.threw THEN ProcessInputCatch(a.err)
      ELSE IF x.threw THEN ProcessInputCatch(x.err)
      ELSE [threw |-> FALSE, err |-> ErrorOf(<<>>),
            nlp |-> NLPResultOf(a.analysis, x),
            appends |-> TRUE, output |-> Or(a.analysis.response, EmptyStr)]

NotInitialized_Inverted(initialized) == initialized

\* the guard of processCommand (README.md 191-193)
NotInitialized(initialized) == ~initialized

\* what the caller of the entry point gets: processCommand catches a
\* rejection of processAndExecute and returns the message or its default
\* (README.md 195-201); processAndExecute and initializeNLP pass a
\* rejection on (index.ts 21-35, 198-201)
CallerBoundary(entry, threw, result) ==
  IF entry = "processCommand"
  THEN [raised |-> FALSE,
        out |-> IF threw THEN CommandApology ELSE Or(result.message, CommandProcessed)]
  ELSE [raised |-> threw, out |-> Undef]

\* the request of slot r ends: q is its record, threw tells whether
\* processAndExecute rejected with err; initialize sets isInitialized after
\* initializeNLP returned (README.md 163-165)
Finish(r, q, threw, err, result) ==
  LET c == CallerBoundary(q.entry, threw, result)
  IN  /\ req' = [req EXCEPT ![r] =
                   [q EXCEPT !.pc = "done", !.result = result, !.pending = NoCall,
                             !.raised = c.raised, !.thrown = err, !.out = c.out]]
      /\ isInitialized' = IF q.entry = "initialize" /\ ~c.raised
                          THEN TRUE ELSE isInitialized

HistoryLen(ctx, sid) == IF sid \in DOMAIN ctx THEN Len(ctx[sid].history) ELSE 0

\* processInput up to the await on the classifier (processor.ts 48-54):
\* getOrCreateContext, then the OpenAI request is issued
EnterProcessInput(r, entry, input, sid, ctx, log) ==
  /\ context' = GetOrCreateContext(ctx, sid)
  /\ appended' = LogCreate(log, sid)
  /\ lastOp' = StoreOp("getOrCreate", sid, HistoryLen(ctx, sid))
  /\ req' = [req EXCEPT ![r] =
               [IdleRequest EXCEPT !.pc = "classify", !.entry = entry,
                                   !.input = input, !.sid = sid,
                                   !.ready = isInitialized,
                                   !.classifierCalls = 1]]

Initialize_ReusesSystem(r, ok) ==
  /\ r = 1 /\ AllIdle
  /\ inits < MaxInits
  /\ inits' = inits + 1
  /\ IF ok
     THEN EnterProcessInput(r, "initialize", ProbeInput, DefaultSession,
                            context, appended)
     ELSE /\ req' = [req EXCEPT ![r] =
                       [IdleRequest EXCEPT !.pc = "done", !.entry = "initialize",
                                           !.raised = TRUE,
                                           !.thrown = ErrorOf(<<"Falha ao conectar com o Notion">>)]]
          /\ UNCHANGED <<context, appended, lastOp>>
  /\ UNCHANGED <<isInitialized, clock, started>>

\* AlfredAssistant.initialize(): the configuration check or the Notion
\* connection fails (ok = FALSE), or a new NLPSystem is built and probed
Initialize(r, ok) ==
  /\ r = 1 /\ AllIdle
  /\ inits < MaxInits
  /\ inits' = inits + 1
  /\ IF ok
     THEN EnterProcessInput(r, "initialize", ProbeInput, DefaultSession,
                            EmptyContext, EmptyLog)
     ELSE /\ req' = [req EXCEPT ![r] =
                       [IdleRequest EXCEPT !.pc = "done", !.entry = "initialize",
                                           !.raised = TRUE,
                                           !.thrown = ErrorOf(<<"Falha ao conectar com o Notion">>)]]
          /\ UNCHANGED <<context, appended, lastOp>>
  /\ UNCHANGED <<isInitialized, clock, started>>

\* a caller's request: AlfredAssistant.processCommand(input, sessionId) or
\* NLPSystem.processAndExecute(input, sessionId)
StartRequest(r, entry, input, arg) ==
  /\ r = 1 /\ AllIdle
  /\ started < MaxRequests
  /\ started' = started + 1
  /\ IF entry = "processCommand" /\ NotInitialized(isInitialized)
     THEN /\ req' = [req EXCEPT ![r] =
                       [IdleRequest EXCEPT !.pc = "done", !.entry = entry,
                                           !.input = input, !.sid = SessionOf(arg),
                                           !.raised = TRUE,
                                           !.thrown = ErrorOf(NotInitializedError)]]
          /\ UNCHANGED <<context, appended, lastOp>>
     ELSE EnterProcessInput(r, entry, input, SessionOf(arg), context, appended)
  /\ UNCHANGED <<isInitialized, clock, inits>>

ClassifierKindOf(outcome) ==
  IF outcome.kind = "parsed" /\ outcome.value \in MalformedValues
  THEN "malformed" ELSE outcome.kind

\* the OpenAI call settles: the rest of processInput (processor.ts 54-78)
\* and executeCommand up to its first await on the backing store
ClassifierReply(r, outcome) ==
  /\ req[r].pc = "classify"
  /\ LET p == ProcessInputSettle(req[r].input, outcome)
         b == ExecuteCommandBegin(p.nlp)
         q == [req[r] EXCEPT !.nlp = p.nlp, !.classifierKind = ClassifierKindOf(outcome)]
     IN  /\ IF p.appends
            THEN /\ context' = UpdateContext(context, q.sid, q.input, p.output, clock)
                 /\ appended' = LogAppend(appended, q.sid, HistoryEntry(q.input, p.output, clock))
                 /\ clock' = clock + 1
                 /\ lastOp' = StoreOp("append", q.sid, HistoryLen(context, q.sid))
            ELSE UNCHANGED <<context, appended, clock, lastOp>>
         /\ IF p.threw
            THEN Finish(r, q, TRUE, p.err, NoResult)
            ELSE IF b.done
                 THEN Finish(r, q, FALSE, ErrorOf(<<>>), b.result)
                 ELSE /\ req' = [req EXCEPT ![r] =
                                   [q EXCEPT !.pc = "store", !.pending = b.call,
                                             !.storeCalls = <<b.call>>]]
                      /\ UNCHANGED isInitialized
  /\ UNCHANGED <<started, inits>>

StoreReply_RecordsResult(r, outcome) ==
  /\ req[r].pc = "store"
  /\ outcome \in StoreOutcomes(req[r].pending)
  /\ LET q == [req[r] EXCEPT !.storeReplies = Append(@, outcome)]
         c == ExecuteCommandResume(q.nlp, q.pending, outcome)
     IN  /\ IF c.done
            THEN Finish(r, [q EXCEPT !.storeThrew = (outcome.kind = "throw"),
                                     !.storeError = outcome.err],
                        FALSE, ErrorOf(<<>>), c.result)
            ELSE /\ req' = [req EXCEPT ![r] =
                              [q EXCEPT !.pending = c.call,
                                        !.storeCalls = Append(q.storeCalls, c.call)]]
                 /\ UNCHANGED isInitialized
         /\ context' = UpdateContext(context, q.sid, q.input, c.result.message, clock)
  /\ UNCHANGED <<appended, clock, lastOp, started, inits>>

\* the awaited backing-store call settles: the route continues to its
\* next store call or to the command result
StoreReply(r, outcome) ==
  /\ req[r].pc = "store"
  /\ outcome \in StoreOutcomes(req[r].pending)
  /\ LET q == [req[r] EXCEPT !.storeReplies = Append(@, outcome)]
         c == ExecuteCommandResume(q.nlp, q.pending, outcome)
     IN  IF c.done
         THEN Finish(r, [q EXCEPT !.storeThrew = (outcome.kind = "throw"),
                                  !.storeError = outcome.err],
                     FALSE, ErrorOf(<<>>), c.result)
         ELSE /\ req' = [req EXCEPT ![r] =
                           [q EXCEPT !.pending = c.call,
                                     !.storeCalls = Append(q.storeCalls, c.call)]]
              /\ UNCHANGED isInitialized
  /\ UNCHANGED <<context, appended, clock, lastOp, started, inits>>

\* the caller has taken the answer
Retire(r) ==
  /\ req[r].pc = "done"
  /\ req' = [req EXCEPT ![r] = IdleRequest]
  /\ UNCHANGED <<isInitialized, context, clock, started, inits, lastOp, appended>>

\* NLPSystem.clearSession / NLPProcessor.clearContext
ClearSession(sid) ==
  /\ AllIdle
  /\ context' = ClearContext(context, sid)
  /\ appended' = LogClear(appended, sid)
  /\ lastOp' = ClearOp(lastOp, sid, HistoryLen(context, sid))
  /\ UNCHANGED <<isInitialized, clock, req, started, inits>>

Next ==
  \/ \E r \in Slots, ok \in BOOLEAN : Initialize(r, ok)
  \/ \E r \in Slots, e \in Entries, i \in Inputs, a \in SessionArgs : StartRequest(r, e, i, a)
  \/ \E r \in Slots, o \in ClassifierOutcomes : ClassifierReply(r, o)
  \/ \E r \in Slots, o \in UNION {StoreOutcomes(req[q].pending) : q \in Slots} : StoreReply(r, o)
  \/ \E r \in Slots : Retire(r)
  \/ \E s \in Sessions : ClearSession(s)

Spec == Init /\ [][Next]_vars

TypeOK ==
  /\ isInitialized \in BOOLEAN
  /\ DOMAIN context \subseteq Sessions
  /\ DOMAIN appended = DOMAIN context
  /\ \A r \in Slots : req[r].pc \in {"idle", "classify", "store", "done"}

(***************************************************************************)
(* The context store on its own: getOrCreateContext, updateContext and     *)
(* clearContext applied in any order                                       *)
(***************************************************************************)
CtxGetOrCreate(sid) ==
  /\ context' = GetOrCreateContext(context, sid)
  /\ appended' = LogCreate(appended, sid)
  /\ lastOp' = StoreOp("getOrCreate", sid, HistoryLen(context, sid))
  /\ UNCHANGED <<isInitialized, clock, req, started, inits>>

CtxAppend(sid, input, output) ==
  /\ clock < MaxAppends
  /\ context' = UpdateContext(context, sid, input, output, clock)
  /\ appended' = LogAppend(appended, sid, HistoryEntry(input, output, clock))
  /\ clock' = clock + 1
  /\ lastOp' = StoreOp("append", sid, HistoryLen(context, sid))
  /\ UNCHANGED <<isInitialized, req, started, inits>>

NextCtx ==
  \/ \E s \in Sessions : CtxGetOrCreate(s)
  \/ \E s \in Sessions : CtxAppend(s, CriarTarefaInput, Reply)
  \/ \E s \in Sessions : ClearSession(s)

SpecCtx == Init /\ [][NextCtx]_vars

(***************************************************************************)
(* Concurrent callers of one NLPSystem: a request may start while others   *)
(* await the classifier or the backing store, and a session may be cleared *)
(* while its requests are in flight                                        *)
(***************************************************************************)
\* NLPSystem.processAndExecute(input, sessionId) called while other
\* requests are pending (index.ts 21-26); the request takes the first slot
\* that holds no pending request
StartConcurrent(r, input, arg) ==
  /\ req[r].pc \in {"idle", "done"}
  /\ \A q \in 1..(r - 1) : req[q].pc \notin {"idle", "done"}
  /\ started < MaxConcurrentRequests
  /\ started' = started + 1
  /\ EnterProcessInput(r, "processAndExecute", input, SessionOf(arg), context, appended)
  /\ UNCHANGED <<isInitialized, clock, inits>>

\* NLPSystem.clearSession called at any moment
ClearSessionAny(sid) ==
  /\ context' = ClearContext(context, sid)
  /\ appended' = LogClear(appended, sid)
  /\ lastOp' = ClearOp(lastOp, sid, HistoryLen(context, sid))
  /\ UNCHANGED <<isInitialized, clock, req, started, inits>>

NextConcurrent ==
  \/ \E r \in Slots, i \in {CriarTarefaInput, ProbeInput}, a \in SessionArgs :
       StartConcurrent(r, i, a)
  \/ \E r \in Slots,
        o \in {ClassifierThrows(ErrorOf(<<"connect ETIMEDOUT">>)),
               ClassifierParsed(AnalysisObject(<<"conversation">>, TRUE, NoEntities,
                                               ConfidenceOf(80), Reply)),
               ClassifierParsed(AnalysisObject(<<"create_task">>, TRUE, WithTitle,
                                               ConfidenceOf(95), Reply))} :
       ClassifierReply(r, o)
  \/ \E r \in Slots :
       \E o \in {x \in StoreOutcomes(req[r].pending) :
                   x.kind = "throw" <=> x.value.shape = "undefined"} :
         StoreReply(r, o)
  \/ \E s \in Sessions : ClearSessionAny(s)

SpecConcurrent == Init /\ [][NextConcurrent]_vars

(***************************************************************************)
(* The command extractor on its own: extractCommand applied to every       *)
(* input text and every analysis of a bounded set                          *)
(***************************************************************************)
\* processInput from the parsed analysis to its return value
\* (processor.ts 57-69), with no call pending afterwards
ExtractCommandStep(r, input, analysis) ==
  /\ req[r].pc = "idle"
  /\ req' = [req EXCEPT ![r] =
               [IdleRequest EXCEPT
                  !.pc = "done", !.entry = "extractCommand", !.input = input,
                  !.nlp = ProcessInputSettle(input, ClassifierParsed(analysis)).nlp,
                  !.classifierKind = "parsed", !.classifierCalls = 1]]
  /\ UNCHANGED <<isInitialized, context, clock, started, inits, lastOp, appended>>

NextExtract ==
  \/ \E r \in Slots : Retire(r)
  \/ \E i \in Inputs \cup {<<" ", " ">>,
                         <<"C","r","i","a","r"," ","X"," ","t","a","r","e","f","a"," ">>,
                         <<"n","o","v","a"," "," ","n","o","t","a">>},
     intent \in CommandIntents \cup {<<"help">>},
     t \in {Undef, EmptyStr, TitleX},
     p \in {Undef, EmptyStr,
            <<"U","R","G","E","N","T","E">>, <<"A","l","t","a">>, <<"h","i","g","h">>,
            <<"m","u","i","t","o"," ","a","l","t","a">>,
            <<"b","a","i","x","a">>, <<"L","O","W">>,
            <<"m","e","d","i","a">>, <<"n","o","r","m","a","l">>},
     d \in {Undef, EmptyStr,
            <<"h","o","j","e">>, <<"A","m","a","n","h","A~">>,
            <<"p","r","o","x","i","m","a"," ","s","e","m","a","n","a">>,
            IsoDateText, <<"d","e","p","o","i","s">>} :
      ExtractCommandStep(1, i,
        AnalysisObject(intent, TRUE,
                       [NoEntities EXCEPT !.title = t, !.priority = p, !.due_date = d],
                       ConfidenceOf(95), Reply))

SpecExtract == Init /\ [][NextExtract]_vars

(***************************************************************************)
(* Properties                                                              *)
(***************************************************************************)
Done(r) == req[r].pc = "done"
IsDisplayString(m) == m # Undef /\ m # EmptyStr

\* C1: for every input of length 0 the request entry point returns the
\* length-guidance message and the classifier is never invoked for that
\* request.
C1_EmptyInputShortCircuits ==
  \A r \in Slots :
    (req[r].entry \in Entries /\ req[r].pc # "idle" /\ ~req[r].raised
       /\ Len(req[r].input) = 0)
    => /\ req[r].classifierCalls = 0
       /\ Done(r) => req[r].result.message = GuidanceMsg

\* C2: for every input longer than 1000 characters the request entry point
\* returns the truncation-request message and the classifier is never
\* invoked for that request; an input of exactly 1000 characters is
\* accepted.
C2_LongInputShortCircuits ==
  \A r \in Slots :
    (req[r].entry \in Entries /\ req[r].pc # "idle" /\ ~req[r].raised)
    => /\ Len(req[r].input) > MAX_INPUT_LENGTH
            => /\ req[r].classifierCalls = 0
               /\ Done(r) => req[r].result.message = TruncationMsg
       /\ Len(req[r].input) = MAX_INPUT_LENGTH
            => /\ ValidateInputLength(req[r].input).valid
               /\ req[r].classifierCalls = 1

\* C3: when the classifier call throws, the request returns the fixed
\* apology message to the caller and no exception propagates out of
\* processInput, processAndExecute or processCommand.
C3_ClassifierThrowGivesApology ==
  \A r \in Slots :
    (Done(r) /\ req[r].classifierKind = "throw")
    => /\ ~req[r].raised
       /\ req[r].result.success
       /\ req[r].result.message = NLPApology
       /\ req[r].entry = "processCommand" => req[r].out = NLPApology

C3_Witness ==
  \E r \in Slots :
    /\ Done(r) /\ req[r].classifierKind = "throw"
    /\ req[r].entry = "processCommand" /\ req[r].out = NLPApology

\* C4 (as claimed): processCommand returns a display string and never
\* raises, in every reachable state of the assistant, including before
\* initialize has completed.
C4_ProcessCommandNeverRaises ==
  \A r \in Slots :
    (Done(r) /\ req[r].entry = "processCommand")
    => ~req[r].raised /\ IsDisplayString(req[r].out)

\* C4 (amended): a processCommand call made once initialize has completed
\* returns a display string and never raises, whatever fails in the
\* pipeline; a call made before that throws the not-initialized error.
C4_ProcessCommandTotalOnceInitialized ==
  \A r \in Slots :
    (Done(r) /\ req[r].entry = "processCommand")
    => IF req[r].ready
       THEN ~req[r].raised /\ IsDisplayString(req[r].out)
       ELSE req[r].raised /\ req[r].thrown = ErrorOf(NotInitializedError)

C4_Witness ==
  \E r \in Slots :
    /\ Done(r) /\ req[r].entry = "processCommand" /\ req[r].ready
    /\ req[r].storeThrew /\ ~req[r].raised /\ IsDisplayString(req[r].out)

\* C5: for every input (the empty string, a string longer than 1000
\* characters, unrecognised text) and every behaviour of the classifier and
\* of the backing store, processAndExecute resolves instead of rejecting
\* and its commandResult.message is defined.
C5_ProcessAndExecuteResolves ==
  \A r \in Slots :
    (Done(r) /\ req[r].entry = "processAndExecute")
    => ~req[r].raised /\ req[r].result.message # Undef

C5_Witness ==
  \E r \in Slots :
    /\ Done(r) /\ req[r].entry = "processAndExecute"
    /\ Len(req[r].input) > MAX_INPUT_LENGTH
    /\ req[r].classifierKind \in {"throw", "empty"}
    /\ req[r].result.message # Undef

\* C6: after any sequence of n appends to one session, the history of the
\* session has length min(n, 10) and equals the last min(n, 10) appended
\* entries in append order; the history never holds more than 10 entries.
C6_HistoryIsLastTen ==
  \A s \in DOMAIN context :
    LET h == context[s].history
        n == Len(appended[s])
        m == IF n < 10 THEN n ELSE 10
    IN  /\ Len(h) = m
        /\ Len(h) <= 10
        /\ \A i \in 1..m : h[i] = appended[s][n - m + i]

C6_Witness ==
  \E s \in DOMAIN context :
    Len(appended[s]) > 10 /\ Len(context[s].history) = 10

\* C7: clear(sessionId) is idempotent: a second consecutive clear leaves the
\* context store unchanged, and the next getOrCreate for that session
\* returns a context with empty history, whatever the history was before
\* the first clear.
C7_ClearIdempotent ==
  [][\A s \in Sessions :
       /\ (lastOp'.op = "clear" /\ lastOp'.sid = s /\ lastOp'.repeat)
            => context' = context
       /\ (lastOp.op = "clear" /\ lastOp.sid = s
             /\ lastOp'.op = "getOrCreate" /\ lastOp'.sid = s)
            => (s \in DOMAIN context' /\ context'[s].history = <<>>)]_vars

C7_Witness ==
  /\ lastOp.op = "clear" /\ lastOp.repeat /\ lastOp.before > 0
  /\ lastOp.sid \notin DOMAIN context

\* C8: whenever the classifier returns malformed output (not parseable, or
\* parseable but not a well-formed {intent, entities, confidence, reply}
\* value), classification yields intent = conversation, confidence = 0.5
\* and the generic clarifying reply, and nothing is raised to the caller.
C8_MalformedOutputFailsSoft ==
  \A r \in Slots :
    (Done(r) /\ req[r].classifierKind \in {"unparseable", "malformed"})
    => /\ ~req[r].raised
       /\ req[r].nlp.intent = <<"conversation">>
       /\ req[r].nlp.confidence = ConfidenceOf(50)
       /\ req[r].nlp.response = ParseFallbackReply

\* C9: every CommandResult returned by executeCommand, for every command
\* (or no command) and every backing-store outcome, has a non-empty
\* message, and whenever success is false its error field is set.
C9_ResultEnvelope ==
  \A r \in Slots :
    (Done(r) /\ ~req[r].raised)
    => /\ IsDisplayString(req[r].result.message)
       /\ ~req[r].result.success => req[r].result.error # Undef

C9_Witness ==
  \E r \in Slots :
    /\ Done(r) /\ ~req[r].raised /\ ~req[r].result.success
    /\ req[r].storeThrew
    /\ req[r].nlp.command.action = <<"get_stats">>
    /\ req[r].result.error # Undef

\* the generic message of each Dispatcher route
C10_GenericMessage ==
  [create_task |-> <<"Nao foi possivel criar a tarefa.">>,
   update_task |-> <<"Nao foi possivel atualizar a tarefa.">>,
   complete_task |-> <<"Nao foi possivel completar a tarefa.">>,
   list_tasks |-> <<"Nao foi possivel listar as tarefas.">>,
   create_note |-> <<"Nao foi possivel criar a nota.">>,
   search_notes |-> <<"Nao foi possivel buscar as notas.">>,
   create_project |-> <<"Nao foi possivel criar o projeto.">>,
   get_summary |-> <<"Nao foi possivel obter o dashboard.">>,
   get_stats |-> <<"Nao foi possivel obter as estatisticas.">>]

\* C10: for every Dispatcher route, when the backing-store call it makes
\* throws, executeCommand returns success:false with that route's generic
\* message and the underlying diagnostic in error, and no exception escapes
\* executeCommand.
C10_StoreFailureIsCaught ==
  \A r \in Slots :
    (Done(r) /\ req[r].storeThrew)
    => /\ ~req[r].raised
       /\ ~req[r].result.success
       /\ req[r].result.message = C10_GenericMessage[req[r].nlp.command.action[1]]
       /\ req[r].result.error = req[r].storeError.message

C10_Witness ==
  \E r \in Slots :
    /\ Done(r) /\ req[r].storeThrew
    /\ Len(req[r].storeCalls) = 2
    /\ req[r].storeCalls[2].op = "completeTask"
    /\ ~req[r].result.success

InFlight(r) == req[r].pc \in {"store", "done"}
ActionOf(r) == req[r].nlp.command.action
ParamOf(r, field) == Get(req[r].nlp.parameters, field)

\* the guiding message of each task-resolving route
C11_GuidingMessage ==
  [update_task |-> <<"E necessario especificar qual tarefa atualizar.">>,
   complete_task |-> <<"E necessario especificar qual tarefa completar.">>]

\* C11: an update_task or complete_task command whose parameters carry
\* neither a task id nor a title returns success:false with a guiding
\* message and makes no backing-store call at all.
C11_MissingTaskReference ==
  \A r \in Slots :
    (InFlight(r) /\ ActionOf(r) \in {<<"update_task">>, <<"complete_task">>}
       /\ Falsy(ParamOf(r, "taskId")) /\ Falsy(ParamOf(r, "title")))
    => /\ Done(r) /\ ~req[r].raised
       /\ ~req[r].result.success
       /\ req[r].result.message = C11_GuidingMessage[ActionOf(r)[1]]
       /\ req[r].result.error # Undef
       /\ req[r].storeCalls = <<>>

C11_Witness ==
  \E r \in Slots :
    /\ Done(r) /\ ActionOf(r) = <<"complete_task">>
    /\ Falsy(ParamOf(r, "taskId")) /\ Falsy(ParamOf(r, "title"))
    /\ ~req[r].result.success /\ req[r].storeCalls = <<>>

\* the first backing-store reply of request r returned a list of items
SearchReturned(r) ==
  /\ Len(req[r].storeReplies) >= 1
  /\ req[r].storeReplies[1].kind = "return"
  /\ req[r].storeReplies[1].value.shape \in {"tasks", "notes"}
FoundTasks(r) == req[r].storeReplies[1].value.items

\* C12: for complete_task given a title and no id, when the title search
\* returns zero tasks the result is success:false with a "not found"
\* message and the only backing-store call made is the search; when it
\* returns one or more tasks, the complete operation is called exactly
\* once, on the first returned task.
C12_CompleteByTitle ==
  \A r \in Slots :
    (InFlight(r) /\ ActionOf(r) = <<"complete_task">>
       /\ Falsy(ParamOf(r, "taskId")) /\ ~Falsy(ParamOf(r, "title")))
    => /\ Len(req[r].storeCalls) >= 1
       /\ req[r].storeCalls[1] = StoreCall("searchTasks", ParamOf(r, "title"))
       /\ (SearchReturned(r) /\ FoundTasks(r) = <<>>)
            => /\ Done(r) /\ ~req[r].raised
               /\ ~req[r].result.success
               /\ req[r].result.message =
                    <<"Tarefa '">> \o ParamOf(r, "title") \o <<"' nao encontrada.">>
               /\ Len(req[r].storeCalls) = 1
       /\ (SearchReturned(r) /\ FoundTasks(r) # <<>>)
            => /\ Len(req[r].storeCalls) = 2
               /\ req[r].storeCalls[2] = StoreCall("completeTask", FoundTasks(r)[1].id)

C12_Witness ==
  \E r \in Slots :
    /\ Done(r) /\ ActionOf(r) = <<"complete_task">>
    /\ Falsy(ParamOf(r, "taskId")) /\ ~Falsy(ParamOf(r, "title"))
    /\ SearchReturned(r) /\ Len(FoundTasks(r)) = 2
    /\ req[r].storeCalls[2].key = <<"1">>
    /\ req[r].result.success

C12_WitnessNotFound ==
  \E r \in Slots :
    /\ Done(r) /\ ActionOf(r) = <<"complete_task">>
    /\ SearchReturned(r) /\ FoundTasks(r) = <<>>
    /\ ~req[r].result.success /\ Len(req[r].storeCalls) = 1

\* C13 (as claimed): for an update_task request whose classified entities
\* carry a title and no task id, the pipeline resolves the task by a title
\* search in the backing store and, when the search returns one or more
\* tasks and the store succeeds, calls update on the first match and
\* returns success:true.
C13_UpdateByTitle ==
  \A r \in Slots :
    (Done(r) /\ req[r].nlp.intent = <<"update_task">> /\ req[r].nlp.hasEntities
       /\ ~Falsy(req[r].nlp.entities.title) /\ Falsy(req[r].nlp.entities.task_id))
    => /\ Len(req[r].storeCalls) >= 1
       /\ req[r].storeCalls[1] = StoreCall("searchTasks", req[r].nlp.entities.title)
       /\ (SearchReturned(r) /\ FoundTasks(r) # <<>> /\ ~req[r].storeThrew
              /\ \A i \in 1..Len(req[r].storeReplies) :
                    req[r].storeReplies[i].value.shape # "undefined")
            => /\ req[r].storeCalls[2] = StoreCall("updateTask", FoundTasks(r)[1].id)
               /\ req[r].result.success

Extracted(r) == Done(r) /\ req[r].entry = "extractCommand"

\* the title expected from each raw input when the classifier gives none
C14_TitleFromInput(input) ==
  CASE input = <<>> -> <<"Nova tarefa">>
    [] input = <<" ", " ">> -> <<"Nova tarefa">>
    [] input = <<"c","r","i","a","r"," ","t","a","r","e","f","a">> ->
         <<"t","a","r","e","f","a">>
    [] input = <<"C","r","i","a","r"," ","X"," ","t","a","r","e","f","a"," ">> -> <<"X">>
    [] input = <<"n","o","v","a"," "," ","n","o","t","a">> -> <<"n","o","t","a">>
    [] OTHER -> input

\* C14: for a create_task intent, if entities.title = X is present then the
\* extracted command has parameters.title = X; if the title is absent (or
\* the empty text, which the never-empty rule treats as absent),
\* parameters.title is a non-empty string for every raw input: the title
\* derived from the input, or the default when the derivation is empty.
C14_CreateTaskTitle ==
  \A r \in Slots :
    (Extracted(r) /\ req[r].nlp.intent = <<"create_task">>)
    => /\ ActionOf(r) = <<"create_task">>
       /\ IF req[r].nlp.entities.title \notin {Undef, EmptyStr}
          THEN ParamOf(r, "title") = req[r].nlp.entities.title
          ELSE /\ ParamOf(r, "title") # Undef
               /\ Len(ParamOf(r, "title")) > 0
               /\ ParamOf(r, "title") = C14_TitleFromInput(req[r].input)

C14_Witness ==
  \E r \in Slots :
    /\ Extracted(r) /\ req[r].nlp.intent = <<"create_task">>
    /\ req[r].nlp.entities.title = Undef
    /\ req[r].input = <<" ", " ">>
    /\ ParamOf(r, "title") = <<"Nova tarefa">>

\* the level expected for each priority text
C15_Level(priority) ==
  CASE priority \in {Undef, EmptyStr} -> Undef
    [] priority \in {<<"U","R","G","E","N","T","E">>, <<"A","l","t","a">>,
                     <<"h","i","g","h">>, <<"m","u","i","t","o"," ","a","l","t","a">>} ->
         <<"Alta">>
    [] priority \in {<<"b","a","i","x","a">>, <<"L","O","W">>} -> <<"Baixa">>
    [] OTHER -> <<"Media">>

\* C15: priority normalization is total and case-insensitive: a present
\* priority containing "alta", "high" or "urgente" normalizes to Alta;
\* otherwise one containing "baixa" or "low" normalizes to Baixa; any other
\* present value normalizes to Media; an absent priority (the empty text
\* counts as absent) stays undefined.
C15_PriorityNormalized ==
  \A r \in Slots :
    (Extracted(r) /\ req[r].nlp.intent \in {<<"create_task">>, <<"list_tasks">>})
    => /\ req[r].nlp.command # NoCommand
       /\ ParamOf(r, "priority") = C15_Level(req[r].nlp.entities.priority)

C15_Witness ==
  \E r \in Slots :
    /\ Extracted(r) /\ req[r].nlp.intent = <<"create_task">>
    /\ req[r].nlp.entities.priority = <<"U","R","G","E","N","T","E">>
    /\ ParamOf(r, "priority") = <<"Alta">>

\* the day expected for each due-date text, counted from today
C16_Day(dateText) ==
  CASE dateText = <<"h","o","j","e">> -> DateOf(0)
    [] dateText = <<"A","m","a","n","h","A~">> -> DateOf(1)
    [] dateText = <<"p","r","o","x","i","m","a"," ","s","e","m","a","n","a">> -> DateOf(7)
    [] dateText = <<"2","0","2","6","-","1","2","-","2","5">> -> DateOf(49)
    [] OTHER -> DateUndef

\* C16: date normalization maps a due-date text containing "hoje" to today,
\* "amanha" to today + 1 day, "semana" to today + 7 days; any other text is
\* parsed directly, and an unparseable or absent text yields undefined
\* without raising an error.
C16_DateNormalized ==
  \A r \in Slots :
    (Extracted(r) /\ req[r].nlp.intent = <<"create_task">>)
    => /\ req[r].nlp.command # NoCommand
       /\ req[r].nlp.parameters.dueDate = C16_Day(req[r].nlp.entities.due_date)

C16_Witness ==
  \E r \in Slots :
    /\ Extracted(r) /\ req[r].nlp.intent = <<"create_task">>
    /\ req[r].nlp.entities.due_date = <<"p","r","o","x","i","m","a"," ","s","e","m","a","n","a">>
    /\ req[r].nlp.parameters.dueDate = DateOf(7)

\* C17: for any classified intent that is help, conversation, or a string
\* outside the nine command intents, the pipeline produces no command,
\* makes no backing-store call, and returns success:true with message equal
\* to the classifier's reply, or the default "how can I help" message when
\* the reply is absent.
C17_ChatIntentsRelayReply ==
  \A r \in Slots :
    (InFlight(r) /\ req[r].classifierCalls = 1
       /\ req[r].nlp.intent \notin CommandIntents \cup {<<"error">>})
    => /\ Done(r) /\ ~req[r].raised
       /\ req[r].nlp.command = NoCommand
       /\ req[r].storeCalls = <<>>
       /\ req[r].result.success
       /\ req[r].result.message =
            (IF req[r].nlp.response \in {Undef, EmptyStr}
             THEN <<"Como posso ajudar voce?">>
             ELSE req[r].nlp.response)

C17_Witness ==
  \E r \in Slots :
    /\ Done(r) /\ req[r].nlp.intent = <<"weather">>
    /\ req[r].nlp.response = Undef
    /\ req[r].storeCalls = <<>>
    /\ req[r].result = ResultOk(<<"Como posso ajudar voce?">>, NoData)

\* the first min(n, Len(items)) items, in the order of items
C18_FirstItems(items, n) ==
  [i \in 1..(IF n < Len(items) THEN n ELSE Len(items)) |-> items[i]]

C18_Limit(r) ==
  IF "limit" \in DOMAIN req[r].nlp.parameters THEN req[r].nlp.parameters.limit ELSE 10

\* C18 (as claimed): for every list operation (list_tasks and
\* search_notes), the items returned in the result are exactly the first
\* min(limit, n) items of the backing store's n results in the store's
\* order, where limit defaults to 10 and can be overridden by parameter.
C18_ListIsCapped ==
  \A r \in Slots :
    (Done(r) /\ ActionOf(r) \in {<<"list_tasks">>, <<"search_notes">>}
       /\ SearchReturned(r))
    => /\ req[r].result.success
       /\ req[r].result.data.kind = "list"
       /\ req[r].result.data.items = C18_FirstItems(FoundTasks(r), C18_Limit(r))

\* the part of C18 that the code meets: list_tasks
C18_ListTasksIsCapped ==
  \A r \in Slots :
    (Done(r) /\ ActionOf(r) = <<"list_tasks">> /\ SearchReturned(r))
    => /\ req[r].result.success
       /\ req[r].result.data.items = C18_FirstItems(FoundTasks(r), C18_Limit(r))

\* the context of session s is the same before and after the step
SameContext(s) ==
  /\ (s \in DOMAIN context') <=> (s \in DOMAIN context)
  /\ s \in DOMAIN context => context'[s] = context[s]

\* C19: sessions are independent: any operation (request, append, clear) on
\* session A leaves the context of every other session B unchanged, under
\* every interleaving of requests of different sessions.  A step changes
\* the context of a session only if it is a step of a request of that
\* session or a clear of that session.
C19_SessionsIndependent ==
  [][\A s \in Sessions :
       SameContext(s)
         \/ (\E r \in Slots : req'[r] # req[r] /\ req'[r].pc # "idle" /\ req'[r].sid = s)
         \/ (req' = req /\ lastOp'.op = "clear" /\ lastOp'.sid = s)]_vars

C19_Witness ==
  /\ DOMAIN context = Sessions
  /\ Len(context[DefaultSession].history) = 1
  /\ Len(context[OtherSession].history) = 0
  /\ \E r, q \in Slots :
       /\ req[r].pc = "store" /\ req[r].sid = DefaultSession
       /\ req[q].pc = "classify" /\ req[q].sid = OtherSession

\* C20 (as claimed): for every request that completes, the history entry
\* appended to the session has input equal to the request text and output
\* equal to the CommandResult.message returned to the caller for that
\* request, and it is appended after the dispatch.
C20_HistoryRecordsResultMessage ==
  \A r \in Slots :
    /\ (Done(r) /\ req[r].entry \in Entries /\ ~req[r].raised)
         => /\ req[r].sid \in DOMAIN appended
            /\ Len(appended[req[r].sid]) >= 1
            /\ LET log == appended[req[r].sid]
                   last == log[Len(log)]
               IN  /\ last.input = req[r].input
                   /\ last.output = req[r].result.message
    /\ (req[r].pc = "store" /\ req[r].entry \in Entries)
         => ~(lastOp.op = "append" /\ lastOp.sid = req[r].sid)

\* the (kind, target, action) triple of each command intent
C21_Triple ==
  [create_task |-> <<"create", "task", "create_task">>,
   update_task |-> <<"update", "task", "update_task">>,
   complete_task |-> <<"update", "task", "complete_task">>,
   list_tasks |-> <<"read", "task", "list_tasks">>,
   create_note |-> <<"create", "note", "create_note">>,
   search_notes |-> <<"read", "note", "search_notes">>,
   create_project |-> <<"create", "project", "create_project">>,
   dashboard |-> <<"read", "dashboard", "get_summary">>,
   analytics |-> <<"read", "analytics", "get_stats">>]

\* C21: command extraction maps each of the nine command intents to
\* exactly one fixed (kind, target, action) triple with kind in {create,
\* update, read} and target in {task, note, project, dashboard,
\* analytics}, and every action so produced is routed by the Dispatcher to
\* a backing-store route, never to the "unrecognized command" branch.
C21_IntentsMapToRoutes ==
  \A r \in Slots :
    (InFlight(r) /\ req[r].classifierCalls = 1
       /\ req[r].nlp.intent \in
            {<<"create_task">>, <<"update_task">>, <<"complete_task">>,
             <<"list_tasks">>, <<"create_note">>, <<"search_notes">>,
             <<"create_project">>, <<"dashboard">>, <<"analytics">>})
    => LET c == req[r].nlp.command
           t == C21_Triple[req[r].nlp.intent[1]]
       IN  /\ c.type = <<t[1]>> /\ c.target = <<t[2]>> /\ c.action = <<t[3]>>
           /\ c.type \in {<<"create">>, <<"update">>, <<"read">>}
           /\ c.target \in {<<"task">>, <<"note">>, <<"project">>,
                             <<"dashboard">>, <<"analytics">>}
           /\ req[r].result.message # <<"Comando nao reconhecido.">>
           /\ \/ req[r].storeCalls # <<>>
              \/ /\ c.action \in {<<"update_task">>, <<"complete_task">>}
                 /\ Done(r)
                 /\ req[r].result.message = C11_GuidingMessage[c.action[1]]

C21_Witness ==
  \E r \in Slots :
    /\ Done(r) /\ req[r].nlp.intent = <<"analytics">>
    /\ ActionOf(r) = <<"get_stats">>
    /\ req[r].storeCalls[1].op = "getProductivityStats"
    /\ req[r].result.success

\* C22 (as claimed): when the title is absent and the title derived from
\* the raw input is empty, the fallback title depends on the intent: "Nova
\* tarefa" for create_task, "Nova nota" for create_note and "Novo projeto"
\* for create_project.
C22_FallbackTitlePerIntent ==
  \A r \in Slots :
    (InFlight(r) /\ req[r].classifierCalls = 1 /\ req[r].input = <<>>
       /\ Falsy(req[r].nlp.entities.title)
       /\ Falsy(req[r].nlp.entities.project_name))
    => /\ req[r].nlp.intent = <<"create_task">>
            => req[r].storeCalls[1] = StoreCall("createTask", <<"Nova tarefa">>)
       /\ req[r].nlp.intent = <<"create_note">>
            => req[r].storeCalls[1] = StoreCall("createNote", <<"Nova nota">>)
       /\ req[r].nlp.intent = <<"create_project">>
            => req[r].storeCalls[1] = StoreCall("createProject", <<"Novo projeto">>)

\* the parts of C22 that the code meets: create_task and create_project
C22_TaskAndProjectFallback ==
  \A r \in Slots :
    (InFlight(r) /\ req[r].classifierCalls = 1 /\ req[r].input = <<>>
       /\ Falsy(req[r].nlp.entities.title)
       /\ Falsy(req[r].nlp.entities.project_name))
    => /\ req[r].nlp.intent = <<"create_task">>
            => req[r].storeCalls[1] = StoreCall("createTask", <<"Nova tarefa">>)
       /\ req[r].nlp.intent = <<"create_project">>
            => req[r].storeCalls[1] = StoreCall("createProject", <<"Novo projeto">>)

\* C23 (as claimed): every operation a Dispatcher route invokes on its
\* backing-store client is an operation the NotionServices client exposes
\* with the result shape the route reads, so that a route whose store
\* operation succeeds returns success:true.
C23_StoreOperationsExposed ==
  \A r \in Slots :
    /\ \A i \in 1..Len(req[r].storeCalls) :
         req[r].storeCalls[i].op \in NotionServicesOps
    /\ (Done(r) /\ ActionOf(r) = <<"get_summary">>
          /\ Len(req[r].storeReplies) = 1
          /\ req[r].storeReplies[1] = StoreReturns([shape |-> "summary", summary |-> FlatSummary]))
         => req[r].result.success

\* the shape half of C23 alone: the summary NotionServices returns
C23_ServiceSummaryIsReadable ==
  \A r \in Slots :
    (Done(r) /\ ActionOf(r) = <<"get_summary">>
       /\ Len(req[r].storeReplies) = 1
       /\ req[r].storeReplies[1] = StoreReturns([shape |-> "summary", summary |-> FlatSummary]))
    => req[r].result.success

\* C24: no retries: within one request the classifier is called at most
\* once and each backing-store operation at most once; a call that failed
\* is never re-issued, and its failure surfaces as exactly one failure
\* result for that request (the apology for a classifier failure,
\* success:false for a backing-store failure).
C24_NoRetries ==
  \A r \in Slots :
    LET calls == req[r].storeCalls
        replies == req[r].storeReplies
    IN  /\ req[r].classifierCalls <= 1
        /\ \A i, j \in 1..Len(calls) : calls[i].op = calls[j].op => i = j
        /\ Len(replies) <= Len(calls)
        /\ \A i \in 1..Len(replies) :
             replies[i].kind = "throw"
               => /\ i = Len(calls)
                  /\ Done(r) /\ ~req[r].raised
                  /\ ~req[r].result.success
        /\ (req[r].pc # "classify" /\ req[r].classifierKind \in {"throw", "empty"})
             => /\ Done(r) /\ ~req[r].raised
                /\ calls = <<>>
                /\ req[r].nlp.intent = <<"error">>
                /\ req[r].result.message = NLPApology

C24_Witness ==
  \E r \in Slots :
    /\ Done(r) /\ Len(req[r].storeCalls) = 2
    /\ req[r].storeReplies[1].kind = "return"
    /\ req[r].storeReplies[2].kind = "throw"
    /\ ~req[r].result.success

\* C25: the text returned to the end user does not depend on internal
\* diagnostic text: for two runs that differ only in the diagnostic message
\* of the failure raised by the classifier or the backing store, the
\* returned CommandResult.message (and the string returned by
\* processCommand) is identical.  The two runs continue from the same
\* state of a request that awaits the classifier or the backing store.
C25_MessageIgnoresDiagnostic ==
  \A r \in Slots :
    /\ req[r].pc = "classify"
         => \A e1, e2 \in ClassifierErrors :
              LET n1 == ProcessInputSettle(req[r].input, ClassifierThrows(e1))
                  n2 == ProcessInputSettle(req[r].input, ClassifierThrows(e2))
                  b1 == ExecuteCommandBegin(n1.nlp)
                  b2 == ExecuteCommandBegin(n2.nlp)
              IN  /\ n1.threw = n2.threw
                  /\ b1.done /\ b2.done
                  /\ b1.result.message = b2.result.message
                  /\ CallerBoundary("processCommand", n1.threw, b1.result).out
                       = CallerBoundary("processCommand", n2.threw, b2.result).out
    /\ req[r].pc = "store"
         => \A e1, e2 \in StoreErrors :
              LET c1 == ExecuteCommandResume(req[r].nlp, req[r].pending, StoreThrows(e1))
                  c2 == ExecuteCommandResume(req[r].nlp, req[r].pending, StoreThrows(e2))
              IN  /\ c1.done /\ c2.done
                  /\ c1.result.message = c2.result.message
                  /\ CallerBoundary("processCommand", FALSE, c1.result).out
                       = CallerBoundary("processCommand", FALSE, c2.result).out

C25_Witness ==
  \E r \in Slots :
    /\ Done(r) /\ req[r].entry = "processCommand" /\ req[r].storeThrew
    /\ req[r].result.error = <<"Falha ao consultar o Notion">>
    /\ req[r].out = <<"Nao foi possivel listar as tarefas.">>

\* C26 (as claimed): the intent of every NLPResult returned by
\* processInput, for every classifier behaviour including failure, is a
\* member of the fixed enumerated set {create_task, update_task,
\* complete_task, list_tasks, create_note, search_notes, create_project,
\* dashboard, analytics, help, conversation}.
C26_IntentInEnumeratedSet ==
  \A r \in Slots :
    (InFlight(r) /\ req[r].classifierCalls = 1)
    => req[r].nlp.intent \in
         {<<"create_task">>, <<"update_task">>, <<"complete_task">>,
          <<"list_tasks">>, <<"create_note">>, <<"search_notes">>,
          <<"create_project">>, <<"dashboard">>, <<"analytics">>,
          <<"help">>, <<"conversation">>}

\* C27: executeCommand never changes the context store: for every command
\* and every backing-store outcome, the context of every session is the
\* same after each step of the dispatch as before it, and the step that
\* enters the dispatch changes the store by nothing but the append of
\* processInput.
C27_DispatchLeavesContext ==
  [][\A r \in Slots :
       /\ (req[r].pc = "store" /\ req'[r] # req[r]) => context' = context
       /\ (req[r].pc = "classify" /\ req'[r].pc \in {"store", "done"})
            => \/ context' = context
               \/ /\ DOMAIN context' = DOMAIN context \cup {req[r].sid}
                  /\ \A s \in DOMAIN context' \ {req[r].sid} : context'[s] = context[s]
                  /\ context'[req[r].sid].history =
                       LastN(Append(IF req[r].sid \in DOMAIN context
                                    THEN context[req[r].sid].history ELSE <<>>,
                                    [input |-> req[r].input,
                                     output |-> Or(req'[r].nlp.response, <<>>),
                                     timestamp |-> clock]), 10)]_vars

C27_Witness ==
  \E r \in Slots :
    /\ Done(r) /\ Len(req[r].storeReplies) = 2
    /\ req[r].result.success
    /\ req[r].sid \in DOMAIN context
    /\ Len(context[req[r].sid].history) = 1
    /\ context[req[r].sid].history[1].output # req[r].result.message

\* the number of entries request r has added to its session
Added(r) ==
  IF lastOp.op = "append" /\ lastOp.sid = req[r].sid
  THEN HistoryLen(context, req[r].sid) - lastOp.before
  ELSE 0

\* C28: a request appends exactly one history entry to its session if and
\* only if classification and command extraction complete without
\* throwing; the append happens before the Dispatcher runs, so it also
\* occurs when the dispatch fails, and when the classifier throws the
\* session's history is unchanged and no backing-store call is made.
C28_AppendIffClassified ==
  \A r \in Slots :
    (InFlight(r) /\ req[r].classifierCalls = 1)
    => /\ Added(r) \in {0, 1}
       /\ Added(r) = 1 <=> req[r].nlp.intent # <<"error">>
       /\ Added(r) = 1
            => LET h == context[req[r].sid].history
               IN  h[Len(h)].input = req[r].input
       /\ req[r].classifierKind \in {"throw", "empty"}
            => /\ Added(r) = 0
               /\ lastOp = StoreOp("getOrCreate", req[r].sid,
                                    HistoryLen(context, req[r].sid))
               /\ req[r].storeCalls = <<>>
       /\ (req[r].pc = "store" /\ req[r].storeReplies = <<>>) => Added(r) = 1
       /\ req[r].storeThrew => Added(r) = 1

C28_Witness ==
  \E r \in Slots :
    /\ Done(r) /\ req[r].storeThrew /\ ~req[r].result.success
    /\ Added(r) = 1
    /\ context[req[r].sid].history[1].input = req[r].input

\* the requests whose classifier call completes with a classification in
\* the step, for session s
Completing(s) ==
  {r \in Slots : /\ req[r].pc = "classify" /\ req'[r].pc # "classify"
                 /\ req[r].sid = s
                 /\ req'[r].nlp.intent # <<"error">>}

C30_ProbeLeavesDefaultContext ==
  \A r \in Slots :
    (Done(r) /\ req[r].entry = "initialize" /\ req[r].classifierCalls = 1)
    => /\ ~req[r].raised
       /\ isInitialized
       /\ DOMAIN context = {<<"default">>}
       /\ GetStats(context).activeSessions = 1
       /\ LET h == context[<<"default">>].history
          IN  /\ Len(h) <= 1
              /\ GetStats(context).totalInteractions = Len(h)
              /\ Len(h) = 1 => h[1].input = ProbeInput
              /\ Len(h) = 0 <=> req[r].nlp.intent = <<"error">>
              /\ req[r].classifierKind \in {"throw", "empty"} => Len(h) = 0

\* the probe's store call failed after the probe was recorded
C30_Witness ==
  \E r \in Slots :
    /\ Done(r) /\ req[r].entry = "initialize"
    /\ req[r].storeThrew /\ ~req[r].raised
    /\ started = 1
    /\ Len(context[<<"default">>].history) = 1

====
